---- MODULE Spec2Model ----
(***************************************************************************)
(* Model of src/view.js: the History stack (class History), the navigation *)
(* operations of the View that drive it, annotations and search, and the   *)
(* media overlay with its split detection and page flip.                   *)
(*                                                                         *)
(* JavaScript values are records whose field names give their type:        *)
(*   [number |-> n]                      a number                          *)
(*   [undefined |-> TRUE]                undefined                         *)
(*   [null |-> TRUE]                     null                              *)
(*   [fraction |-> k, id |-> i]          the object {fraction: k/FracDen}  *)
(*   [index |-> s, fraction |-> k, id |-> i]   {index: s, fraction: ...}   *)
(*   [cfi |-> s, range |-> r]            an address (CFI) string           *)
(*   [href |-> h]                        any other string                  *)
(* Numbers and strings compare by value, objects by identity (id).         *)
(***************************************************************************)
EXTENDS Integers, Sequences, FiniteSets, TLC

VARIABLES
    history,          \* View.history: the History (#arr, #index)
    dispatched,       \* events the History dispatched during the last step
    trace,            \* the last two History calls (observation only)
    book,             \* View.book, the capabilities of the open book
    sectionProgress,  \* View.#sectionProgress is set
    renderer,         \* View.renderer: "none", "open" or "destroyed"
    tasks,            \* suspended async operations, in call order
    step,             \* what the last View step did (observation only)
    limit,            \* how many operations the shell starts without awaiting
    pushedBy,         \* per History position, the rank of the call that pushed it
    searchResults,    \* View.#searchResults
    overlays,         \* per section, the overlay the renderer holds, if any
    jobs,             \* addAnnotation calls suspended at their await
    iter,             \* the search sequence the consumer is pulling
    sstep,            \* what the last search or overlay step did (observation only)
    media,            \* the media overlay: the closure of open's listeners, the audio
    probe             \* a pure function's arguments and the value it returned

histVars == <<history, dispatched, trace>>

searchVars == <<searchResults, overlays, jobs, iter, sstep>>

mediaVars == <<media, probe>>

viewVars ==
    <<book, sectionProgress, renderer, tasks, step, limit, pushedBy, searchVars,
      mediaVars>>

vars ==
    <<history, dispatched, trace, book, sectionProgress, renderer, tasks, step,
      limit, pushedBy, searchResults, overlays, jobs, iter, sstep, media, probe>>

----------------------------------------------------------------------------
(* Bounds *)

\* Longest History array explored by direct calls of the History's methods.
MaxLen == 3

\* Largest section index and longest list of renderer contents a highlight
\* looks its document up in.
MaxIndex == 2

MaxContents == 3

\* Width and height of the grid the element's rects and the viewport lie on,
\* and the most client rects an element has.
GridW == 10

GridH == 2

MaxRects == 2

\* Latest begin or end of a narrated item, in ticks; the ticks in a second;
\* the largest area in a visible ratio.
MaxTicks == 6

TicksPerSecond == 2

MaxArea == 4

\* Narrated spans, renderer navigations of highlights that are pending, flip
\* listeners made, and page advances by one listener.
NumSpans == 2

MaxNavs == 2

MaxArms == 2

MaxFlips == 2
\* Longest History array built by the View's navigation operations.
MaxDepth == 2
\* Fractions are k/FracDen for k in 0..FracDen.
FracDen == 1
\* Number of sections of the open book.
NumSections == 1
\* Most async operations suspended at a time.
MaxPending == 1
\* Most navigation calls in flight at a time where their order is examined.
MaxInFlight == 2
\* Number of sections of a book that is searched.
NumSearchSections == 2
\* Most matches the matcher finds in a section.
MaxHits == 2
\* Most addAnnotation calls suspended at a time.
MaxJobs == 2
\* Most search sequences started.
MaxRuns == 2

----------------------------------------------------------------------------
(* JavaScript values *)

Undefined == [undefined |-> TRUE]

Null == [null |-> TRUE]

Num(n) == [number |-> n]

IsNumber(v) == "number" \in DOMAIN v

IsNullish(v) == v = Undefined \/ v = Null

Fractions == 0..FracDen

\* identities of the objects a caller may hold: two are enough to tell
\* "the same object" from "an equal object"
Ids == {"a", "b"}

\* {fraction: k/FracDen}, a distinct object per id
FractionState(id, k) == [fraction |-> k, id |-> id]

\* {index: s, fraction: k/FracDen}
SectionFractionState(id, s, k) == [index |-> s, fraction |-> k, id |-> id]

\* x.fraction for a non-nullish x: the number, or undefined
PropFraction(v) == IF "fraction" \in DOMAIN v THEN Num(v.fraction) ELSE Undefined

\* ToBoolean: undefined, null and the number 0 are falsy
Truthy(v) == ~IsNullish(v) /\ ~(IsNumber(v) /\ v.number = 0)

\* a === b
StrictEquals(a, b) == a = b

----------------------------------------------------------------------------
(* class History *)

\* #arr = [], #index = -1
NewHistory == [arr |-> <<>>, index |-> -1, neg1 |-> Undefined]

\* this.#arr[i]: an element, the property "-1", or undefined
Get(h, i) ==
    IF i = -1 THEN h.neg1
    ELSE IF i >= 0 /\ i < Len(h.arr) THEN h.arr[i + 1]
    ELSE Undefined

\* this.#arr[i] = x: i = -1 sets a property and leaves the length alone
SetAt(h, i, x) ==
    IF i = -1 THEN [h EXCEPT !.neg1 = x]
    ELSE IF i < Len(h.arr) THEN [h EXCEPT !.arr[i + 1] = x]
    ELSE [h EXCEPT !.arr = h.arr \o [k \in 1..(i - Len(h.arr)) |-> Undefined] \o <<x>>]

TruncateNone(h, n) == h

\* this.#arr.length = n
Truncate(h, n) ==
    IF n <= Len(h.arr) THEN [h EXCEPT !.arr = SubSeq(h.arr, 1, n)]
    ELSE [h EXCEPT !.arr = h.arr \o [k \in 1..(n - Len(h.arr)) |-> Undefined]]

IndexChange == [type |-> "index-change"]

PopState(state) == [type |-> "popstate", state |-> state]

Result(h, events, threw) == [h |-> h, events |-> events, threw |-> threw]

\* last === x || last?.fraction && last.fraction === x.fraction
\* (x.fraction is read only when last.fraction is truthy)
Coalesces(last, x) ==
    \/ StrictEquals(last, x)
    \/ /\ ~IsNullish(last)
       /\ Truthy(PropFraction(last))
       /\ StrictEquals(PropFraction(last), PropFraction(x))

\* reading x.fraction of undefined or null throws a TypeError
PushThrows(last, x) ==
    /\ ~StrictEquals(last, x)
    /\ ~IsNullish(last)
    /\ Truthy(PropFraction(last))
    /\ IsNullish(x)

pushState(h, x) ==
    LET last == Get(h, h.index) IN
    IF PushThrows(last, x) THEN Result(h, <<>>, TRUE)
    ELSE IF Coalesces(last, x) THEN Result(h, <<>>, FALSE)
    ELSE LET h1 == [SetAt(h, h.index + 1, x) EXCEPT !.index = h.index + 1]
         IN Result(Truncate(h1, h1.index + 1), <<IndexChange>>, FALSE)

replaceStateMoves(h, x) ==
    Result([SetAt(h, h.index + 1, x) EXCEPT !.index = h.index + 1], <<>>, FALSE)

replaceState(h, x) == Result(SetAt(h, h.index, x), <<>>, FALSE)

backUnguarded(h) ==
    Result([h EXCEPT !.index = h.index - 1],
           <<PopState(Get(h, h.index - 1)), IndexChange>>, FALSE)

back(h) ==
    IF h.index <= 0 THEN Result(h, <<>>, FALSE)
    ELSE Result([h EXCEPT !.index = h.index - 1],
                <<PopState(Get(h, h.index - 1)), IndexChange>>, FALSE)

forwardNoMove(h) ==
    IF h.index >= Len(h.arr) - 1 THEN Result(h, <<>>, FALSE)
    ELSE Result(h, <<PopState(Get(h, h.index + 1)), IndexChange>>, FALSE)

forwardStale(h) ==
    IF h.index >= Len(h.arr) - 1 THEN Result(h, <<>>, FALSE)
    ELSE Result([h EXCEPT !.index = h.index + 1],
                <<PopState(Get(h, h.index)), IndexChange>>, FALSE)

forward(h) ==
    IF h.index >= Len(h.arr) - 1 THEN Result(h, <<>>, FALSE)
    ELSE Result([h EXCEPT !.index = h.index + 1],
                <<PopState(Get(h, h.index + 1)), IndexChange>>, FALSE)

canGoBack(h) == h.index > 0

canGoForward(h) == h.index < Len(h.arr) - 1

\* a clear that empties the entries and leaves the pointer where it was
clearKeepsIndex(h) ==
    Result([NewHistory EXCEPT !.index = h.index], <<>>, FALSE)

clear(h) == Result(NewHistory, <<>>, FALSE)

----------------------------------------------------------------------------
(* The History driven directly through its public methods *)

\* the last two calls, each with its argument and the History before it
Record(op, x, pre) == [op |-> op, x |-> x, pre |-> pre]

Log(t, op, x, pre) ==
    LET t1 == Append(t, Record(op, x, pre))
    IN IF Len(t1) > 2 THEN Tail(t1) ELSE t1

\* states a caller can hand to pushState / replaceState
States == {Num(0)} \cup {FractionState(i, k) : i \in Ids, k \in Fractions}

\* replaceState stores x whatever it is: a primitive and an object stand for all
ReplaceStates == {Num(0), FractionState("a", FracDen)}

Apply(op, x, r) ==
    /\ history' = r.h
    /\ dispatched' = r.events
    /\ trace' = Log(trace, op, x, history)

PushState(x) ==
    /\ history.index + 1 < MaxLen
    /\ Apply("pushState", x, pushState(history, x))
    /\ UNCHANGED viewVars

ReplaceState(x) ==
    /\ Apply("replaceState", x, replaceState(history, x))
    /\ UNCHANGED viewVars

Back ==
    /\ Apply("back", Undefined, back(history))
    /\ UNCHANGED viewVars

Forward ==
    /\ Apply("forward", Undefined, forward(history))
    /\ UNCHANGED viewVars

Clear ==
    /\ Apply("clear", Undefined, clear(history))
    /\ UNCHANGED viewVars

NoValue == [none |-> TRUE]

SearchSections == 0..(NumSearchSections - 1)

NoBook == [resolveCFI |-> "none", toc |-> FALSE, open |-> FALSE]

\* the books that can be opened: with its own resolveCFI (synchronous or
\* asynchronous) or without, with or without splitTOCHref and getTOCFragment
Books == [resolveCFI : {"none", "sync", "async"}, toc : BOOLEAN, open : {FALSE}]

\* new Map()
NewMap == [k \in {} |-> <<>>]

NoStep ==
    [kind |-> "new", op |-> "new", target |-> NoValue, resolved |-> NoValue,
     request |-> NoValue, outcome |-> "none", surfaced |-> FALSE,
     pre |-> NewHistory, preResults |-> NewMap]

InitView ==
    /\ book = NoBook
    /\ sectionProgress = FALSE
    /\ renderer = "none"
    /\ tasks = <<>>
    /\ step = NoStep
    /\ pushedBy = <<>>

NoOverlays ==
    [i \in SearchSections |-> [live |-> FALSE, values |-> {}, replayed |-> {}]]

\* no search sequence; the fields are those of a sequence (see Search);
\* prev names what the sequence before this one searched
NoIter ==
    [pc |-> "none", at |-> "none", mode |-> "none", index |-> 0, hits |-> 0,
     next |-> 0, listed |-> FALSE, abandoned |-> FALSE, run |-> 0,
     out |-> <<>>, prev |-> "none"]

NoSearchStep ==
    [kind |-> "new", job |-> NoValue, index |-> NoValue, live |-> FALSE,
     outcome |-> "none", result |-> NoValue, changed |-> FALSE,
     cleared |-> NoValue]

InitSearch ==
    /\ searchResults = NewMap
    /\ overlays = NoOverlays
    /\ jobs = <<>>
    /\ iter = NoIter
    /\ sstep = NoSearchStep

\* what the last media-overlay step did (observation only): whether the
\* handler threw, how often it called renderer.next, and the listeners the
\* audio had before it
NoMediaStep ==
    [kind |-> "new", span |-> 0, threw |-> FALSE, nexts |-> 0, pre |-> <<>>]

\* no media overlay: open has attached no listener. Of the closure of open,
\* handler is pageFlipTimeupdateHandler (0 for null) and lastActive the
\* element of the WeakRef (0 for none); listeners are the timeupdate
\* listeners on the audio in the order they were added, navs the
\* renderer.goTo promises of highlights, active the elements that carry the
\* active class, item the overlay's activeItem, lit whether a span is being
\* narrated, time the audio's currentTime; arms counts the listeners made
\* and flips the calls of renderer.next by each
NoMedia ==
    [bound |-> FALSE, overlay |-> FALSE, handler |-> 0, lastActive |-> 0,
     listeners |-> <<>>, navs |-> <<>>, active |-> {}, item |-> 0,
     lit |-> FALSE, time |-> 0, arms |-> 0, flips |-> <<>>,
     mstep |-> NoMediaStep]

NoProbe == [kind |-> "none", in |-> NoValue, out |-> NoValue, done |-> FALSE]

InitMedia ==
    /\ media = NoMedia
    /\ probe = NoProbe

\* the state after `new View()`
Init ==
    /\ history = NewHistory
    /\ dispatched = <<>>
    /\ trace = <<>>
    /\ InitView
    /\ InitSearch
    /\ InitMedia
    /\ limit = MaxPending

NextHistory ==
    \/ \E x \in States : PushState(x)
    \/ \E x \in ReplaceStates : ReplaceState(x)
    \/ Back
    \/ Forward
    \/ Clear

SpecHistory == Init /\ [][NextHistory]_vars

----------------------------------------------------------------------------
(* class View: resolution of navigation targets *)

Sections == 0..(NumSections - 1)

\* The Book and the progress trackers are external: what a call into them
\* does this time (succeed or fail) and the section it names are inputs.
Envs == [oc : {"ok", "fail"}, section : Sections]

Return(v) == [threw |-> FALSE, value |-> v]

Throw == [threw |-> TRUE, value |-> Undefined]

\* a promise that is, or will be, fulfilled with v or rejected
Promise(state, v) == [promise |-> state, value |-> v]

IsPromise(v) == "promise" \in DOMAIN v

\* an address string: index and range as written by getCFI, or one that
\* passes the format test and cannot be parsed
IsCFI(v) == "cfi" \in DOMAIN v \/ "badcfi" \in DOMAIN v

BadCFI == [badcfi |-> TRUE]

Href == [href |-> "x"]

getCFI(index, range) == [cfi |-> index, range |-> range]

\* {index, anchor}; a number resolves to {index} alone
Resolved(index, anchor) == [index |-> index, anchor |-> anchor]

resolveCFI(b, cfi, env) ==
    IF ~b.open THEN Throw
    ELSE IF b.resolveCFI = "sync" THEN
        IF env.oc = "fail" \/ cfi = BadCFI THEN Throw
        ELSE Return(Resolved(cfi.cfi, "cfi"))
    ELSE IF b.resolveCFI = "async" THEN
        IF env.oc = "fail" \/ cfi = BadCFI
        THEN Return(Promise("rejected", Undefined))
        ELSE Return(Promise("fulfilled", Resolved(cfi.cfi, "cfi")))
    ELSE IF cfi = BadCFI THEN Throw
    ELSE Return(Resolved(cfi.cfi, "cfi"))

\* the body of the try block
resolveTarget(b, sp, target, env) ==
    IF IsNumber(target) THEN Return([index |-> target.number])
    ELSE IF IsNullish(target) THEN Throw
    ELSE IF "fraction" \in DOMAIN target THEN
        IF ~sp THEN Throw ELSE Return(Resolved(env.section, "section"))
    ELSE IF IsCFI(target) THEN resolveCFI(b, target, env)
    ELSE IF ~b.open \/ env.oc = "fail" THEN Throw
    ELSE Return(Resolved(env.section, "href"))

\* try { ... } catch (e) { console.error(e) }: a caught throw yields undefined
resolveNavigation(b, sp, target, env) ==
    LET r == resolveTarget(b, sp, target, env)
    IN IF r.threw THEN Undefined ELSE r.value

----------------------------------------------------------------------------
(* class View: the operations *)

\* targets the shell hands to goTo and select
Targets == {Num(0), getCFI(0, 1), Undefined}

\* targets the shell may hand to resolveNavigation: every shape, and every
\* number from -1 to the number of sections
ResolveTargets ==
    {Num(n) : n \in -1..NumSections}
    \cup {FractionState("a", k) : k \in Fractions}
    \cup {getCFI(i, 1) : i \in Sections}
    \cup {BadCFI, Href, Undefined, Null}

RelocateReasons == {"snap", "page", "scroll", "navigation"}

ObjectIds(h) ==
    {v.id : v \in {w \in {h.arr[i] : i \in 1..Len(h.arr)} \cup {h.neg1} :
                       "id" \in DOMAIN w}}

\* the identity of an object literal evaluated now: none of the objects
\* the History holds
FreshId(h) ==
    ToString(CHOOSE n \in 1..(Len(h.arr) + 2) :
        /\ ToString(n) \notin ObjectIds(h)
        /\ \A m \in 1..(n - 1) : ToString(m) \in ObjectIds(h))

\* n is the rank of the call among the calls whose task or pushed entry
\* still exists (0: not a navigation call)
Task(op, target, pc, request, n) ==
    [op |-> op, target |-> target, pc |-> pc, request |-> request, n |-> n]

Step(kind, op, target, resolved, request, outcome, surfaced) ==
    [kind |-> kind, op |-> op, target |-> target, resolved |-> resolved,
     request |-> request, outcome |-> outcome, surfaced |-> surfaced,
     pre |-> history, preResults |-> searchResults]

\* the ranks in use
Ranks(ts, pb) ==
    ({ts[i].n : i \in 1..Len(ts)} \cup {pb[i] : i \in 1..Len(pb)}) \ {0}

\* the rank of a call made now: later than every call still known
NextRank == Cardinality(Ranks(tasks, pushedBy)) + 1

\* ranks are kept dense: only their order matters
Dense(n, used) == IF n = 0 THEN 0 ELSE Cardinality({m \in used : m <= n})

SetTasks(ts, pb) ==
    /\ tasks' = [i \in 1..Len(ts) |->
                     [ts[i] EXCEPT !.n = Dense(ts[i].n, Ranks(ts, pb))]]
    /\ pushedBy' = [i \in 1..Len(pb) |-> Dense(pb[i], Ranks(ts, pb))]

\* the ranks of the entries once call n has pushed: the entries beyond the
\* new pointer are gone
PushedBy(r, n) ==
    IF r.events = <<>> THEN pushedBy
    ELSE [i \in 1..(r.h.index + 1) |->
             IF i = r.h.index + 1 THEN n
             ELSE IF i <= Len(pushedBy) THEN pushedBy[i] ELSE 0]

Remove(seq, i) == SubSeq(seq, 1, i - 1) \o SubSeq(seq, i + 1, Len(seq))

NoHistoryCall == UNCHANGED <<history, trace>> /\ dispatched' = <<>>

\* a History call made by the View: `step` keeps the History before it
Call(r) ==
    /\ history' = r.h
    /\ dispatched' = r.events
    /\ UNCHANGED trace

\* renderer.destroy(): the renderer's contents and their overlays are gone
CloseOverlays == overlays' = NoOverlays

\* book.sections.some(section => section.mediaOverlay): open sets
\* this.mediaOverlay and attaches the listeners with a new closure
HasMediaOverlay(b) == "media" \in DOMAIN b /\ b.media

\* open(book): the book's capabilities decide which trackers exist; the
\* renderer is created and opened
Open(b) ==
    /\ renderer # "open"
    /\ book' = [b EXCEPT !.open = TRUE]
    /\ sectionProgress' = b.toc
    /\ renderer' = "open"
    /\ step' = Step("open", "open", NoValue, NoValue, NoValue, "none", FALSE)
    /\ NoHistoryCall
    /\ media' = IF HasMediaOverlay(b)
                THEN [NoMedia EXCEPT !.bound = TRUE, !.overlay = TRUE]
                ELSE media
    /\ UNCHANGED <<tasks, pushedBy, limit, searchVars, probe>>

close ==
    /\ renderer' = IF renderer = "none" THEN "none" ELSE "destroyed"
    /\ sectionProgress' = FALSE
    /\ searchResults' = NewMap
    /\ Call(clear(history))
    /\ SetTasks(tasks, <<>>)
    /\ step' = Step("close", "close", NoValue, NoValue, NoValue, "none", FALSE)
    /\ CloseOverlays
    /\ iter' = IF iter.pc = "none" THEN iter
               ELSE [iter EXCEPT !.listed = FALSE, !.abandoned = TRUE]
    /\ media' = IF media.bound
                THEN [media EXCEPT !.overlay = FALSE,
                                   !.mstep = [NoMediaStep EXCEPT
                                                 !.kind = "close",
                                                 !.pre = media.listeners]]
                ELSE media
    /\ UNCHANGED <<book, limit, jobs, sstep, probe>>

\* the shell calls resolveNavigation itself
ResolveNavigation(target, env) ==
    /\ step' = Step("resolve", "resolveNavigation", target,
                    resolveNavigation(book, sectionProgress, target, env),
                    NoValue, "none", FALSE)
    /\ NoHistoryCall
    /\ UNCHANGED <<book, sectionProgress, renderer, tasks, pushedBy, limit, mediaVars,
                   searchVars>>

\* start an operation: the renderer is asked to go to `request`, and the
\* operation waits for it
Request(op, target, resolved, request) ==
    /\ SetTasks(Append(tasks, Task(op, target, "renderer", NoValue, NextRank)),
                pushedBy)
    /\ step' = Step("call", op, target, resolved, request, "none", FALSE)

\* goTo(target), up to `await this.renderer.goTo(resolved)`
goTo(target, env) ==
    /\ renderer = "open"
    /\ Len(tasks) < limit
    /\ LET resolved == resolveNavigation(book, sectionProgress, target, env)
       IN Request("goTo", target, resolved, resolved)
    /\ NoHistoryCall
    /\ UNCHANGED <<book, sectionProgress, renderer, limit, mediaVars, searchVars>>

\* {...obj, select: true}
WithSelect(obj) == [select |-> TRUE, obj |-> obj]

\* select(target), up to its first await that suspends: a promise from the
\* Book's resolver is awaited first, anything else goes to the renderer
select(target, env) ==
    /\ renderer = "open"
    /\ Len(tasks) < limit
    /\ LET obj == resolveNavigation(book, sectionProgress, target, env)
       IN IF IsPromise(obj)
          THEN /\ SetTasks(Append(tasks, Task("select", target, "resolve",
                                              obj, NextRank)), pushedBy)
               /\ step' = Step("call", "select", target, obj, NoValue, "none", FALSE)
          ELSE Request("select", target, obj, WithSelect(obj))
    /\ NoHistoryCall
    /\ UNCHANGED <<book, sectionProgress, renderer, limit, mediaVars, searchVars>>

\* select resumes with the Book's answer: a rejection is caught
selectResolved(i) ==
    /\ i \in 1..Len(tasks)
    /\ tasks[i].op = "select" /\ tasks[i].pc = "resolve"
    /\ LET t == tasks[i] IN
       IF t.request.promise = "rejected"
       THEN /\ SetTasks(Remove(tasks, i), pushedBy)
            /\ step' = Step("settle", "select", t.target, t.request, NoValue,
                            "none", FALSE)
       ELSE /\ SetTasks([tasks EXCEPT ![i] =
                    Task("select", t.target, "renderer", NoValue, t.n)],
                    pushedBy)
            /\ step' = Step("call", "select", t.target, t.request.value,
                            WithSelect(t.request.value), "none", FALSE)
    /\ NoHistoryCall
    /\ UNCHANGED <<book, sectionProgress, renderer, limit, mediaVars, searchVars>>

\* goToFraction(frac), up to the await; without a section-progress tracker
\* getSection throws and the returned promise rejects
goToFraction(k, env) ==
    /\ renderer = "open"
    /\ Len(tasks) < limit
    /\ IF ~sectionProgress
       THEN /\ step' = Step("call", "goToFraction", [fraction |-> k], NoValue, NoValue,
                            "none", TRUE)
            /\ UNCHANGED <<tasks, pushedBy>>
       ELSE Request("goToFraction", [fraction |-> k], NoValue,
                    Resolved(env.section, "section"))
    /\ NoHistoryCall
    /\ UNCHANGED <<book, sectionProgress, renderer, limit, mediaVars, searchVars>>

\* goToFractionInSection(index, frac), up to the await
goToFractionInSection(index, k) ==
    /\ renderer = "open"
    /\ Len(tasks) < limit
    /\ Request("goToFractionInSection", [index |-> index, fraction |-> k],
               NoValue, [index |-> index, anchor |-> "fraction", frac |-> k])
    /\ NoHistoryCall
    /\ UNCHANGED <<book, sectionProgress, renderer, limit, mediaVars, searchVars>>

\* operations that catch a failed navigation
Catches(op) == op \in {"goTo", "select"}

\* the state an operation pushes once the renderer has navigated
Pushed(t, h) ==
    IF Catches(t.op) THEN t.target
    ELSE IF t.op = "goToFraction"
    THEN FractionState(FreshId(h), t.target.fraction)
    ELSE SectionFractionState(FreshId(h), t.target.index, t.target.fraction)

\* the renderer's goTo promise is fulfilled: the operation pushes its state
settleFulfilled(i) ==
    /\ i \in 1..Len(tasks)
    /\ tasks[i].pc = "renderer"
    /\ LET t == tasks[i] IN
       IF t.op = "popstate"
       THEN /\ NoHistoryCall
            /\ SetTasks(Remove(tasks, i), pushedBy)
            /\ step' = Step("settle", t.op, t.target, NoValue, NoValue,
                            "fulfilled", FALSE)
       ELSE /\ history.index + 1 < MaxDepth
            /\ Call(pushState(history, Pushed(t, history)))
            /\ SetTasks(Remove(tasks, i),
                        PushedBy(pushState(history, Pushed(t, history)), t.n))
            /\ step' = Step("settle", t.op, t.target, NoValue, NoValue,
                            "fulfilled",
                            pushState(history, Pushed(t, history)).threw
                                /\ ~Catches(t.op))
    /\ UNCHANGED <<book, sectionProgress, renderer, limit, mediaVars, searchVars>>

\* the renderer's goTo promise is rejected: goTo and select catch and log,
\* the others let the rejection through
settleRejected(i) ==
    /\ i \in 1..Len(tasks)
    /\ tasks[i].pc = "renderer"
    /\ step' = Step("settle", tasks[i].op, tasks[i].target, NoValue,
                    NoValue, "rejected", ~Catches(tasks[i].op))
    /\ SetTasks(Remove(tasks, i), pushedBy)
    /\ NoHistoryCall
    /\ UNCHANGED <<book, sectionProgress, renderer, limit, mediaVars, searchVars>>

\* the popstate listener of the constructor: resolve, ask the renderer,
\* and do not wait; without a renderer the listener throws
onPopState(r, op, env) ==
    LET pops == SelectSeq(r.events, LAMBDA e : e.type = "popstate") IN
    IF pops = <<>> \/ renderer = "none"
    THEN /\ step' = Step("history", op, NoValue, NoValue, NoValue, "none", FALSE)
         /\ UNCHANGED <<tasks, pushedBy>>
    ELSE LET resolved ==
                 resolveNavigation(book, sectionProgress, pops[1].state, env)
         IN /\ SetTasks(Append(tasks, Task("popstate", NoValue, "renderer",
                                           NoValue, 0)), pushedBy)
            /\ step' = Step("call", "popstate", pops[1].state, resolved,
                            resolved, "none", FALSE)

\* the shell calls view.history.back()
historyBack(env) ==
    /\ Len(tasks) < limit
    /\ Call(back(history))
    /\ onPopState(back(history), "back", env)
    /\ UNCHANGED <<book, sectionProgress, renderer, limit, mediaVars, searchVars>>

\* the shell calls view.history.forward()
historyForward(env) ==
    /\ Len(tasks) < limit
    /\ Call(forward(history))
    /\ onPopState(forward(history), "forward", env)
    /\ UNCHANGED <<book, sectionProgress, renderer, limit, mediaVars, searchVars>>

\* {}
EmptyObject == [empty |-> TRUE]

\* this.#sectionProgress?.getProgress(index, fraction, size) ?? {}
SectionProgressOf(sp, index) ==
    IF sp THEN [section |-> index] ELSE EmptyObject

\* this.#tocProgress?.getProgress(index, range), and the same for the page
\* list: the three trackers are created together and dropped together
TOCProgressOf(sp, index, range) ==
    IF sp THEN [item |-> index] ELSE Undefined

\* { ...progress, tocItem, pageItem, cfi, range }
LastLocation(sp, index, range) ==
    [progress |-> SectionProgressOf(sp, index),
     tocItem |-> TOCProgressOf(sp, index, range),
     pageItem |-> TOCProgressOf(sp, index, range),
     cfi |-> getCFI(index, range)]

\* #onRelocate: the renderer reports a new location; the location is
\* emitted as the detail of a relocate event
onRelocate(reason, index, range) ==
    /\ renderer = "open"
    /\ IF reason \in {"snap", "page", "scroll"}
       THEN Call(replaceState(history, getCFI(index, range)))
       ELSE NoHistoryCall
    /\ step' = Step("relocate", reason, getCFI(index, range),
                    LastLocation(sectionProgress, index, range), NoValue,
                    "none", FALSE)
    /\ UNCHANGED <<book, sectionProgress, renderer, tasks, pushedBy, limit, mediaVars,
                   searchVars>>

\* (this.#sectionProgress?.sectionFractions ?? []).map(...): one fraction
\* per section of the book, or the empty array
getSectionFractions(sp) ==
    IF sp THEN [i \in 1..NumSections |-> [sectionFraction |-> i - 1]] ELSE <<>>

GetSectionFractions ==
    /\ step' = Step("fractions", "getSectionFractions", NoValue,
                    getSectionFractions(sectionProgress), NoValue, "none", FALSE)
    /\ NoHistoryCall
    /\ UNCHANGED <<book, sectionProgress, renderer, tasks, pushedBy, limit, mediaVars,
                   searchVars>>

Next ==
    \/ \E b \in Books : Open(b)
    \/ close
    \/ \E t \in Targets, env \in Envs : goTo(t, env)
    \/ \E t \in Targets, env \in Envs : select(t, env)
    \/ \E i \in 1..MaxPending : selectResolved(i)
    \/ \E k \in Fractions, env \in Envs : goToFraction(k, env)
    \/ \E s \in Sections, k \in Fractions : goToFractionInSection(s, k)
    \/ \E i \in 1..MaxPending : settleFulfilled(i)
    \/ \E i \in 1..MaxPending : settleRejected(i)
    \/ \E env \in Envs : historyBack(env)
    \/ \E env \in Envs : historyForward(env)
    \/ \E reason \in RelocateReasons, s \in Sections, r \in {0, 1} :
           onRelocate(reason, s, r)

Spec == Init /\ [][Next]_vars

\* resolveNavigation on every target shape, for every book, before a book
\* is opened, while it is open and after close()
NextResolve ==
    \/ \E b \in Books : Open(b)
    \/ close
    \/ \E t \in ResolveTargets, env \in Envs : ResolveNavigation(t, env)

SpecResolve == Init /\ [][NextResolve]_vars

\* the operations that use the section-progress tracker
NextProgress ==
    \/ \E b \in Books : Open(b)
    \/ close
    \/ \E k \in Fractions, env \in Envs :
           ResolveNavigation(FractionState("a", k), env)
    \/ \E k \in Fractions, env \in Envs : goToFraction(k, env)
    \/ \E i \in 1..MaxPending : settleFulfilled(i)
    \/ \E i \in 1..MaxPending : settleRejected(i)
    \/ \E reason \in RelocateReasons, s \in Sections, r \in {0, 1} :
           onRelocate(reason, s, r)
    \/ GetSectionFractions

SpecProgress == Init /\ [][NextProgress]_vars

\* the state after `new View()`, the shell starting up to MaxInFlight
\* navigation calls without awaiting the earlier ones
InitOrder ==
    /\ history = NewHistory
    /\ dispatched = <<>>
    /\ trace = <<>>
    /\ InitView
    /\ InitSearch
    /\ InitMedia
    /\ limit = MaxInFlight

\* books that answer resolveCFI at once
OrderBooks == {b \in Books : b.resolveCFI = "none"}

NextOrder ==
    \/ \E b \in OrderBooks : Open(b)
    \/ \E t \in Targets, env \in Envs : goTo(t, env)
    \/ \E t \in Targets, env \in Envs : select(t, env)
    \/ \E k \in Fractions, env \in Envs : goToFraction(k, env)
    \/ \E i \in 1..MaxInFlight : settleFulfilled(i)
    \/ \E i \in 1..MaxInFlight : settleRejected(i)
    \/ \E reason \in RelocateReasons, s \in Sections, r \in {0, 1} :
           onRelocate(reason, s, r)

SpecOrder == InitOrder /\ [][NextOrder]_vars

----------------------------------------------------------------------------
(* class View: annotations and overlays *)

SEARCH_PREFIX == "foliate-search:"

\* SEARCH_PREFIX + cfi
SearchValue(cfi) == [prefix |-> SEARCH_PREFIX, cfi |-> cfi]

\* value.startsWith(SEARCH_PREFIX)
StartsWithSearchPrefix(v) == "prefix" \in DOMAIN v

\* value.replace(SEARCH_PREFIX, '')
StripPrefix(v) == v.cfi

\* the addresses the matcher can find in section i, in document order
HitCFI(i, h) == getCFI(i, h)

\* values of persistent annotations the shell adds: addresses in a section
AnnotationValues == {getCFI(i, 1) : i \in SearchSections}

\* books that are searched: every section may or may not have createDocument
SearchBooks ==
    [resolveCFI : {"none", "async"}, toc : BOOLEAN, open : {FALSE},
     docs : [SearchSections -> BOOLEAN]]

\* the Book resolves the addresses the View has made from its sections
OkEnv == [oc |-> "ok", section |-> 0]

\* this.renderer.getContents().find(x => x.index === index && x.overlayer)
getOverlayer(ovs, rend, index) ==
    IF rend = "open" /\ index \in DOMAIN ovs /\ ovs[index].live
    THEN ovs[index] ELSE Undefined

\* an addAnnotation call suspended at `await this.resolveNavigation(...)`
Job(value, remove, origin, resolved) ==
    [value |-> value, remove |-> remove, origin |-> origin,
     resolved |-> resolved]

\* addAnnotation(annotation, remove), up to its await
addAnnotation(value, remove, origin) ==
    Job(value, remove, origin,
        resolveNavigation(book, sectionProgress,
            IF StartsWithSearchPrefix(value) THEN StripPrefix(value) ELSE value,
            OkEnv))

\* list.map(item => this.addAnnotation(item)) for a list of values
AddAll(list, remove, origin) ==
    [k \in 1..Len(list) |-> addAnnotation(list[k], remove, origin)]

\* the continuation of an await on a value that is no promise runs after
\* the continuations queued before it; a promise of the Book settles at
\* any time
CanRun(i) ==
    \/ IsPromise(jobs[i].resolved)
    \/ \A j \in 1..(i - 1) : IsPromise(jobs[j].resolved)

\* what `await` hands to the destructuring
Awaited(v) ==
    IF ~IsPromise(v) THEN Return(v)
    ELSE IF v.promise = "rejected" THEN Throw
    ELSE Return(v.value)

\* this.#tocProgress.getProgress(index)?.label ?? '': the TOC has an item
\* for the first section only
TOCLabel(index) == IF index = 0 THEN "item" ELSE ""

Observed(kind, job, index, live, outcome, result, changed, cleared) ==
    [kind |-> kind, job |-> job, index |-> index, live |-> live,
     outcome |-> outcome, result |-> result, changed |-> changed,
     cleared |-> cleared]

\* the overlays once the job has acted on the overlay of section index
Drawn(job, index) ==
    LET obj == getOverlayer(overlays, renderer, index) IN
    IF obj = Undefined THEN overlays
    ELSE IF job.remove
    THEN [overlays EXCEPT ![index].values = @ \ {job.value}]
    ELSE [overlays EXCEPT ![index].values = @ \cup {job.value}]

\* the rest of addAnnotation after the await
RunJob(i) ==
    /\ i \in 1..Len(jobs)
    /\ CanRun(i)
    /\ LET job == jobs[i]
           r == Awaited(job.resolved)
       IN IF r.threw \/ IsNullish(r.value)
          THEN \* destructuring undefined, or the rejection of the Book
               /\ overlays' = overlays
               /\ sstep' = Observed("annotation", job, NoValue, FALSE,
                                    "rejected", NoValue, FALSE, sstep.cleared)
          ELSE LET index == r.value.index
                   live == getOverlayer(overlays, renderer, index) # Undefined
               IN /\ overlays' = Drawn(job, index)
                  /\ sstep' =
                       IF StartsWithSearchPrefix(job.value)
                       THEN Observed("annotation", job, index, live,
                                     "returned", Undefined,
                                     Drawn(job, index) # overlays, sstep.cleared)
                       ELSE IF ~sectionProgress
                       THEN Observed("annotation", job, index, live,
                                     "rejected", NoValue,
                                     Drawn(job, index) # overlays, sstep.cleared)
                       ELSE Observed("annotation", job, index, live,
                                     "returned",
                                     [index |-> index, label |-> TOCLabel(index)],
                                     Drawn(job, index) # overlays, sstep.cleared)
    /\ jobs' = Remove(jobs, i)
    /\ UNCHANGED <<histVars, book, sectionProgress, renderer, tasks, step,
                   limit, mediaVars, pushedBy, searchResults, iter>>

\* the shell calls addAnnotation or deleteAnnotation with a persistent
\* annotation
AddAnnotation(value, remove) ==
    /\ renderer = "open"
    /\ Len(jobs) < MaxJobs
    /\ jobs' = Append(jobs, addAnnotation(value, remove, "shell"))
    /\ sstep' = Observed("addAnnotation", NoValue, NoValue, FALSE, "none",
                         NoValue, FALSE, NoValue)
    /\ UNCHANGED <<histVars, book, sectionProgress, renderer, tasks, step,
                   limit, mediaVars, pushedBy, searchResults, overlays, iter>>

\* the key of a Map entry set with an undefined index
UndefinedKey == -1

RECURSIVE ListsFrom(_, _)
ListsFrom(reg, k) ==
    IF k >= NumSearchSections THEN <<>>
    ELSE (IF k \in DOMAIN reg THEN reg[k] ELSE <<>>) \o ListsFrom(reg, k + 1)

\* the items of every list of the registry; removals of different values
\* commute, so the lists are taken in key order
AllItems(reg) == ListsFrom(reg, UndefinedKey)

\* this.#searchResults.set(key, list)
MapSet(reg, key, list) ==
    [k \in DOMAIN reg \cup {key} |-> IF k = key THEN list ELSE reg[k]]

Items(list) == {list[k] : k \in 1..Len(list)}

\* the persistent annotations on each overlay that no pending call of the
\* shell is about to delete
Persistent ==
    [i \in SearchSections |->
        {v \in overlays[i].values :
            /\ ~StartsWithSearchPrefix(v)
            /\ ~\E k \in 1..Len(jobs) :
                   jobs[k].value = v /\ jobs[k].remove}]

\* clearSearch(): a deleteAnnotation per stored item, then the Map is cleared
clearSearch(reg) == AddAll(AllItems(reg), TRUE, "clear")

ClearSearch ==
    /\ Len(jobs) + Len(AllItems(searchResults)) <= MaxJobs
    /\ jobs' = jobs \o clearSearch(searchResults)
    /\ searchResults' = NewMap
    /\ iter' = [iter EXCEPT !.listed = FALSE]
    /\ sstep' = Observed("clearSearch", NoValue, NoValue, FALSE, "returned",
                         Undefined, FALSE, Persistent)
    /\ UNCHANGED <<histVars, book, sectionProgress, renderer, tasks, step,
                   limit, mediaVars, pushedBy, overlays>>

\* the create-overlayer listener: #createOverlayer replays the stored list
\* of the section, then the new overlayer is attached to the contents
createOverlayer(index) ==
    /\ renderer = "open"
    /\ LET list == IF index \in DOMAIN searchResults
                   THEN searchResults[index] ELSE <<>>
       IN /\ Len(jobs) + Len(list) <= MaxJobs
          /\ jobs' = jobs \o AddAll(list, FALSE, "replay")
          /\ overlays' = [overlays EXCEPT ![index] =
                 [live |-> TRUE, values |-> {}, replayed |-> Items(list)]]
    /\ sstep' = Observed("create-overlayer", NoValue, index, TRUE, "none",
                         NoValue, TRUE, NoValue)
    /\ UNCHANGED <<histVars, book, sectionProgress, renderer, tasks, step,
                   limit, mediaVars, pushedBy, searchResults, iter>>

----------------------------------------------------------------------------
(* class View: search *)

\* the sentinel 'done'
Done == [done |-> TRUE]

\* the generator, the registry and the suspended calls while a stretch of
\* the generator runs, with what the stretch hands to the consumer
Run(it, reg, jb, kind, result) ==
    [it |-> it, reg |-> reg, jb |-> jb, kind |-> kind, result |-> result]

Yield(st, at, result) ==
    [st EXCEPT !.it.pc = "yield", !.it.at = at,
               !.it.out = Append(@, result),
               !.kind = "yield", !.result = result]

\* yield 'done'
yieldDone(st) == Yield(st, "done", Done)

\* an exception leaves the generator: the pull of the consumer rejects
throwOut(st) ==
    [st EXCEPT !.it.pc = "threw", !.it.at = "none",
               !.kind = "throw", !.result = NoValue]

\* await createDocument() of section i
awaitDocument(st, i) ==
    [st EXCEPT !.it.pc = "doc", !.it.at = "none", !.it.index = i,
               !.kind = "await", !.result = NoValue]

\* a match of #searchSection reaches search: the item is pushed on the list
\* made at the start, which is the registry's list unless the registry was
\* cleared or replaced since; addAnnotation(item); yield result
yieldHit(st, h) ==
    LET cfi == HitCFI(st.it.index, h)
        pushed == IF st.it.listed
                  THEN [st.reg EXCEPT ![st.it.index] =
                            Append(@, SearchValue(cfi))]
                  ELSE st.reg
        st1 == [st EXCEPT !.reg = pushed,
                          !.jb = Append(@, addAnnotation(SearchValue(cfi),
                                                         FALSE, "search")),
                          !.it.next = h + 1]
    IN Yield(st1, "hit", [cfi |-> cfi])

\* #searchBook has matched section index: yield { progress }
yieldProgress(st, n) ==
    Yield([st EXCEPT !.it.hits = n], "progress",
          [progress |-> [num |-> st.it.index + 1, den |-> NumSearchSections],
           index |-> st.it.index, hits |-> n])

\* { index, subitems } reaches search: a new list is set for the section,
\* addAnnotation for every item, then the label is read from the TOC tracker
yieldSubitems(st) ==
    LET index == st.it.index
        list == [h \in 1..st.it.hits |-> SearchValue(HitCFI(index, h))]
        st1 == [st EXCEPT !.reg = MapSet(st.reg, index, list),
                          !.jb = @ \o AddAll(list, FALSE, "search")]
    IN IF ~sectionProgress THEN throwOut(st1)
       ELSE Yield(st1, "subitems",
                  [label |-> TOCLabel(index), index |-> index,
                   subitems |-> [h \in 1..st.it.hits |-> HitCFI(index, h)]])

\* the sections with createDocument from position `from` on
DocsFrom(b, from) == {i \in SearchSections : i >= from /\ b.docs[i]}

Min(S) == CHOOSE m \in S : \A k \in S : m <= k

\* the loop of #searchBook moves on: sections without createDocument are
\* skipped; after the last section search yields 'done'
nextSection(st, from) ==
    IF DocsFrom(book, from) = {} THEN yieldDone(st)
    ELSE awaitDocument(st, Min(DocsFrom(book, from)))

\* after `await import`: the list of this run is set in the registry under
\* opts.index, and the inner generator starts
afterImport(st) ==
    LET section == st.it.mode = "section"
        key == IF section THEN st.it.index ELSE UndefinedKey
        st1 == [st EXCEPT !.reg = MapSet(st.reg, key, <<>>),
                          !.it.listed = TRUE]
    IN IF section
       THEN IF book.docs[st.it.index] THEN awaitDocument(st1, st.it.index)
            ELSE throwOut(st1)
       ELSE nextSection(st1, 0)

\* after `await createDocument()`: the matcher finds n matches
afterDocument(st, n) ==
    IF st.it.mode = "section"
    THEN IF n = 0 THEN yieldDone([st EXCEPT !.it.hits = 0])
         ELSE yieldHit([st EXCEPT !.it.hits = n], 1)
    ELSE yieldProgress(st, n)

\* the consumer has called next() on a sequence suspended at a yield
afterYield(st) ==
    IF st.it.at = "hit"
    THEN IF st.it.next <= st.it.hits THEN yieldHit(st, st.it.next)
         ELSE yieldDone(st)
    ELSE IF st.it.at = "progress"
    THEN IF st.it.hits > 0 THEN yieldSubitems(st)
         ELSE nextSection(st, st.it.index + 1)
    ELSE IF st.it.at = "subitems" THEN nextSection(st, st.it.index + 1)
    ELSE [st EXCEPT !.it.pc = "finished", !.it.at = "none",
                    !.kind = "finished", !.result = NoValue]

Ran(st) ==
    /\ Len(st.jb) <= MaxJobs
    /\ iter' = st.it
    /\ searchResults' = st.reg
    /\ jobs' = st.jb
    /\ sstep' = Observed(st.kind, NoValue, st.it.index, FALSE, "none",
                         st.result, FALSE, NoValue)
    /\ UNCHANGED <<histVars, book, sectionProgress, renderer, tasks, step,
                   limit, mediaVars, pushedBy, overlays>>

\* search(opts) and the first next(): clearSearch() runs and the generator
\* waits for the import. The consumer starts a search between two pulls of
\* the sequence it had, which it does not pull again.
Search(mode, index) ==
    /\ renderer = "open"
    /\ "docs" \in DOMAIN book
    /\ iter.pc \notin {"import", "doc"}
    /\ iter.run < MaxRuns
    /\ Ran(Run([NoIter EXCEPT !.pc = "import", !.mode = mode,
                              !.index = index, !.run = iter.run + 1,
                              !.prev = IF iter.mode = "section"
                                       THEN ToString(iter.index)
                                       ELSE iter.mode],
               NewMap, jobs \o clearSearch(searchResults), "search", NoValue))

\* the generator resumes after an await
Resume(n) ==
    /\ iter.pc \in {"import", "doc"}
    /\ "docs" \in DOMAIN book
    /\ Ran(IF iter.pc = "import"
           THEN afterImport(Run(iter, searchResults, jobs, "none", NoValue))
           ELSE afterDocument(Run(iter, searchResults, jobs, "none", NoValue), n))

\* the consumer pulls the next result
Pull ==
    /\ iter.pc = "yield"
    /\ ~iter.abandoned
    /\ "docs" \in DOMAIN book
    /\ Ran(afterYield(Run(iter, searchResults, jobs, "none", NoValue)))

\* books with the TOC capabilities whose sections all have createDocument
OverlayBooks ==
    {b \in SearchBooks : b.toc /\ \A i \in SearchSections : b.docs[i]}

\* the search sequence alone, on every book
NextSequence ==
    \/ \E b \in SearchBooks : Open(b)
    \/ \E i \in SearchSections : Search("section", i)
    \/ Search("book", 0)
    \/ \E n \in 0..MaxHits : Resume(n)
    \/ Pull
    \/ \E i \in 1..MaxJobs : RunJob(i)

SpecSequence == Init /\ [][NextSequence]_vars

\* search, clearSearch and the overlays the renderer creates
NextSearch ==
    \/ \E b \in OverlayBooks : Open(b)
    \/ \E i \in SearchSections : Search("section", i)
    \/ Search("book", 0)
    \/ \E n \in 0..MaxHits : Resume(n)
    \/ Pull
    \/ ClearSearch
    \/ \E i \in SearchSections : createOverlayer(i)
    \/ \E i \in 1..MaxJobs : RunJob(i)

SpecSearch == Init /\ [][NextSearch]_vars

\* search in a section run again and again, the shell never calling
\* clearSearch itself
NextRerun ==
    \/ \E b \in OverlayBooks : Open(b)
    \/ \E i \in SearchSections : Search("section", i)
    \/ \E n \in 0..MaxHits : Resume(n)
    \/ Pull
    \/ \E i \in SearchSections : createOverlayer(i)
    \/ \E i \in 1..MaxJobs : RunJob(i)

SpecRerun == Init /\ [][NextRerun]_vars

\* search in one section and clearSearch next to a persistent annotation
NextClear ==
    \/ \E b \in OverlayBooks : Open(b)
    \/ Search("section", 0)
    \/ \E n \in 0..MaxHits : Resume(n)
    \/ Pull
    \/ ClearSearch
    \/ createOverlayer(0)
    \/ AddAnnotation(getCFI(0, 1), FALSE)
    \/ \E i \in 1..MaxJobs : RunJob(i)

SpecClear == Init /\ [][NextClear]_vars

\* persistent annotations on every book
NextAnnotate ==
    \/ \E b \in SearchBooks : Open(b)
    \/ close
    \/ \E i \in SearchSections : createOverlayer(i)
    \/ \E v \in AnnotationValues, remove \in BOOLEAN : AddAnnotation(v, remove)
    \/ \E i \in 1..MaxJobs : RunJob(i)

SpecAnnotate == Init /\ [][NextAnnotate]_vars

\* close() after navigation and search
NextClose ==
    \/ \E b \in OverlayBooks : Open(b)
    \/ close
    \/ \E t \in Targets, env \in Envs : goTo(t, env)
    \/ \E i \in 1..MaxPending : settleFulfilled(i)
    \/ Search("section", 0)
    \/ \E n \in 0..MaxHits : Resume(n)
    \/ Pull

SpecClose == Init /\ [][NextClose]_vars

----------------------------------------------------------------------------
(* The media overlay: pure functions of open's closure *)

\* every variable but probe
stateVars ==
    <<histVars, book, sectionProgress, renderer, tasks, step, limit, pushedBy,
      searchVars, media>>

Probe(kind, in) == [kind |-> kind, in |-> in, out |-> NoValue, done |-> FALSE]

\* a new View, and the arguments a function is about to be called with
InitProbe(kind, inputs) ==
    /\ history = NewHistory
    /\ dispatched = <<>>
    /\ trace = <<>>
    /\ InitView
    /\ InitSearch
    /\ media = NoMedia
    /\ limit = MaxPending
    /\ probe \in {Probe(kind, in) : in \in inputs}

\* the function returns
Returned(kind, out) ==
    /\ probe.kind = kind
    /\ ~probe.done
    /\ probe' = [probe EXCEPT !.out = out, !.done = TRUE]
    /\ UNCHANGED stateVars

\* an entry of renderer.getContents(): its index and the document of the
\* section it was loaded for
Content(i) == [index |-> Num(i), doc |-> i]

\* contents.find(x => x.index = index): the callback assigns, and the value
\* of the assignment, index, decides whether the entry is the one found
RECURSIVE findAssigning(_, _, _)
findAssigning(contents, index, k) ==
    IF k > Len(contents) THEN [found |-> Undefined, contents |-> contents]
    ELSE LET assigned == [contents EXCEPT ![k].index = index]
         IN IF Truthy(index)
            THEN [found |-> assigned[k], contents |-> assigned]
            ELSE findAssigning(assigned, index, k + 1)

\* const { doc } = this.renderer.getContents().find(x => x.index = resolved.index)
\* : destructuring undefined throws
lookupDoc(contents, index) ==
    LET r == findAssigning(contents, index, 1)
    IN IF IsNullish(r.found) THEN Throw ELSE Return(Num(r.found.doc))

ContentIndexes == 0..MaxIndex

ContentLists ==
    UNION {[1..n -> {Content(i) : i \in ContentIndexes}] : n \in 1..MaxContents}

\* resolved.index: a section index, or undefined
ResolvedIndexes == {Num(i) : i \in ContentIndexes} \cup {Undefined}

LookupInputs == [contents : ContentLists, index : ResolvedIndexes]

InitLookup == InitProbe("lookup", LookupInputs)

highlightElement == Returned("lookup", lookupDoc(probe.in.contents, probe.in.index))

NextLookup == highlightElement

SpecLookup == InitLookup /\ [][NextLookup]_vars

\* a DOMRect: width and height are derived from its edges
Rect(left, right, top, bottom) ==
    [left |-> left, right |-> right, top |-> top, bottom |-> bottom]

Width(rect) == rect.right - rect.left

Height(rect) == rect.bottom - rect.top

Max2(a, b) == IF a >= b THEN a ELSE b

Min2(a, b) == IF a <= b THEN a ELSE b

RECURSIVE SumTo(_, _)
SumTo(f, n) == IF n = 0 THEN 0 ELSE f[n] + SumTo(f, n - 1)

\* Array.from(el.getClientRects()).filter(rect => rect.width > 0 && rect.height > 0)
RECURSIVE NonZeroRects(_)
NonZeroRects(rects) ==
    IF rects = <<>> THEN <<>>
    ELSE IF Width(Head(rects)) > 0 /\ Height(Head(rects)) > 0
         THEN <<Head(rects)>> \o NonZeroRects(Tail(rects))
         ELSE NonZeroRects(Tail(rects))

\* the renderer's box clipped to the frame's
viewportRect(rendererRect, frameRect) ==
    Rect(Max2(rendererRect.left, frameRect.left),
         Min2(rendererRect.right, frameRect.right),
         Max2(rendererRect.top, frameRect.top),
         Min2(rendererRect.bottom, frameRect.bottom))

\* a client rect of the element in the coordinates of the renderer's page
Global(rect, frameRect) ==
    Rect(frameRect.left + rect.left, frameRect.left + rect.right,
         frameRect.top + rect.top, frameRect.top + rect.bottom)

\* overlapWidth * overlapHeight when both are positive
visiblePart(rect, frameRect, vp) ==
    LET g == Global(rect, frameRect)
        overlapWidth == Max2(0, Min2(g.right, vp.right) - Max2(g.left, vp.left))
        overlapHeight == Max2(0, Min2(g.bottom, vp.bottom) - Max2(g.top, vp.top))
    IN IF overlapWidth > 0 /\ overlapHeight > 0
       THEN overlapWidth * overlapHeight ELSE 0

verticalOverlap(rect, frameRect, vp) ==
    LET g == Global(rect, frameRect)
    IN Max2(0, Min2(g.bottom, vp.bottom) - Max2(g.top, vp.top))

\* the distance of the rect's right edge from the viewport's, not limited to
\* the rect's width
pastRightUnclamped(rect, frameRect, vp) ==
    Max2(0, Global(rect, frameRect).right - vp.right)

pastRight(rect, frameRect, vp) ==
    Max2(0, Min2(Width(rect), Global(rect, frameRect).right - vp.right))

pastLeft(rect, frameRect, vp) ==
    Max2(0, Min2(Width(rect), vp.left - Global(rect, frameRect).left))

forwardHiddenWidth(rect, frameRect, vp, rtl) ==
    IF rtl THEN pastLeft(rect, frameRect, vp) ELSE pastRight(rect, frameRect, vp)

backwardHiddenWidth(rect, frameRect, vp, rtl) ==
    IF rtl THEN pastRight(rect, frameRect, vp) ELSE pastLeft(rect, frameRect, vp)

\* what the loop adds to forwardArea and backwardArea for one rect
forwardPart(rect, frameRect, vp, rtl) ==
    IF verticalOverlap(rect, frameRect, vp) <= 0 THEN 0
    ELSE forwardHiddenWidth(rect, frameRect, vp, rtl)
            * verticalOverlap(rect, frameRect, vp)

backwardPart(rect, frameRect, vp, rtl) ==
    IF verticalOverlap(rect, frameRect, vp) <= 0 THEN 0
    ELSE backwardHiddenWidth(rect, frameRect, vp, rtl)
            * verticalOverlap(rect, frameRect, vp)

\* a quotient of two areas, kept exact
Ratio(num, den) == [num |-> num, den |-> den]

\* progressionRatio = rtl ? backwardRatio : forwardRatio
progressionArea(forwardArea, backwardArea, rtl) ==
    IF rtl THEN backwardArea ELSE forwardArea

oppositeArea(forwardArea, backwardArea, rtl) ==
    IF rtl THEN forwardArea ELSE backwardArea

\* getElementSplitInfo(el, doc, renderer) for a layout: the element's client
\* rects, the frame's and the renderer's boxes, the flow (renderer.scrolled,
\* the body's writing mode) and the renderer's dir
getElementSplitInfo(layout) ==
    LET rects == NonZeroRects(layout.rects)
        frameRect == layout.frame
        rendererRect == layout.rend
        vp == viewportRect(rendererRect, frameRect)
        rtl == layout.rtl
        n == Len(rects)
        totalArea == SumTo([k \in 1..n |-> Width(rects[k]) * Height(rects[k])], n)
        visibleArea == SumTo([k \in 1..n |-> visiblePart(rects[k], frameRect, vp)], n)
        forwardArea == SumTo([k \in 1..n |-> forwardPart(rects[k], frameRect, vp, rtl)], n)
        backwardArea == SumTo([k \in 1..n |-> backwardPart(rects[k], frameRect, vp, rtl)], n)
        progression == progressionArea(forwardArea, backwardArea, rtl)
        opposite == oppositeArea(forwardArea, backwardArea, rtl)
    IN IF layout.flow = "scrolled" THEN Null
       ELSE IF n = 0 THEN Null
       ELSE IF Width(rendererRect) = 0 \/ Height(rendererRect) = 0 THEN Null
       ELSE IF vp.left >= vp.right \/ vp.top >= vp.bottom THEN Null
       ELSE IF layout.flow = "vertical" THEN Null
       ELSE IF totalArea = 0 \/ visibleArea = 0 THEN Null
       ELSE IF visibleArea * 100 >= 98 * totalArea THEN Null
       ELSE IF progression * 10 < totalArea THEN Null
       ELSE IF progression <= opposite THEN Null
       ELSE [visibleRatio |-> Ratio(visibleArea, totalArea),
             offScreenRatio |-> Ratio(progression, totalArea)]

\* the grid the boxes lie on
Xs == {0, 3, GridW - 3, GridW}

\* the lines of the page, and its whole height
Rows == {<<t, t + 1>> : t \in 0..(GridH - 1)} \cup {<<0, GridH>>}

Boxes ==
    {Rect(l, r, row[1], row[2]) : l \in Xs, r \in Xs, row \in Rows}

ClientRects ==
    {box \in Boxes : Width(box) > 0} \cup {Rect(0, 0, 0, GridH)}

RectLists == UNION {[1..n -> ClientRects] : n \in 1..MaxRects}

\* the frame holds every column; the renderer has scrolled it by 0 or 3
FrameRects == {Rect(0 - dx, GridW + 3 - dx, 0, GridH) : dx \in {0, 3}}

\* the renderer's box: any width at full height, two that end a line above
\* the frame's bottom, and one that is empty
RendererRects ==
    {box \in Boxes : Width(box) > 0 /\ Height(box) = GridH}
        \cup {Rect(0, GridW, 0, GridH - 1), Rect(0, 3, 0, GridH - 1),
              Rect(0, 0, 0, GridH)}

\* paginated horizontal layouts, single rects in the layouts that
\* getElementSplitInfo leaves alone, and a rect that overflows by less than 2%
Layouts ==
    [rects : RectLists, frame : FrameRects, rend : RendererRects,
     flow : {"paginated"}, rtl : BOOLEAN]
    \cup [rects : [1..1 -> ClientRects], frame : FrameRects,
          rend : {Rect(0, GridW, 0, GridH)},
          flow : {"scrolled", "vertical"}, rtl : BOOLEAN]
    \cup [rects : {<<Rect(0, 5 * GridW + 1, 0, GridH)>>},
          frame : {Rect(0, 5 * GridW + 1, 0, GridH)},
          rend : {Rect(0, 5 * GridW, 0, GridH)},
          flow : {"paginated"}, rtl : BOOLEAN]

InitSplit == InitProbe("split", Layouts)

SplitDetection == Returned("split", getElementSplitInfo(probe.in))

NextSplit == SplitDetection

SpecSplit == InitSplit /\ [][NextSplit]_vars

\* v ?? 0 for a time that may be undefined
OrZero(v) == IF IsNullish(v) THEN 0 ELSE v.number

\* a narrated item: its begin and end, in ticks
Item(begin, end) == [begin |-> begin, end |-> end]

\* the flip time of the doc comment's example: no early offset
flipTimeNoOffset(item, visibleRatio, unit) ==
    LET begin == OrZero(item.begin)
        duration == OrZero(item.end) - OrZero(item.begin)
    IN Ratio(Max2(begin * visibleRatio.den,
                  begin * visibleRatio.den + duration * visibleRatio.num),
             visibleRatio.den)

\* a flip time that is not kept from preceding begin
flipTimeUnclamped(item, visibleRatio, unit) ==
    LET begin == OrZero(item.begin)
        duration == OrZero(item.end) - OrZero(item.begin)
    IN Ratio(begin * visibleRatio.den + duration * visibleRatio.num
                - unit * visibleRatio.den,
             visibleRatio.den)

\* Math.max(begin, begin + duration * visibleRatio - earlyOffset), as an
\* exact quotient of ticks; unit is the number of ticks in earlyOffset, 1.0 s
flipTime(item, visibleRatio, unit) ==
    LET begin == OrZero(item.begin)
        duration == OrZero(item.end) - OrZero(item.begin)
    IN Ratio(Max2(begin * visibleRatio.den,
                  begin * visibleRatio.den + duration * visibleRatio.num
                      - unit * visibleRatio.den),
             visibleRatio.den)

\* duration > 0.5
LongEnough(item, unit) == 2 * (OrZero(item.end) - OrZero(item.begin)) > unit

\* the flip the continuation schedules for an item once a split is
\* detected, null when the item is too short
scheduledFlip(item, visibleRatio, unit) ==
    IF LongEnough(item, unit) THEN flipTime(item, visibleRatio, unit) ELSE Null

\* begin and end of an item, which may be missing
Times == {Num(t) : t \in 0..MaxTicks} \cup {Undefined}

\* the visible ratios split detection returns: above 0 and below 0.98
VisibleRatios ==
    {Ratio(n, d) : n \in 1..MaxArea, d \in 1..MaxArea} \cap
        {r \in [num : 1..MaxArea, den : 1..MaxArea] : r.num * 100 < 98 * r.den}

\* the item of the doc comment, in milliseconds
ExampleItem == Item(Num(2306625), Num(2315691))

FlipInputs ==
    [item : [begin : Times, end : Times], ratio : VisibleRatios,
     unit : {TicksPerSecond}]
    \cup [item : {ExampleItem}, ratio : {Ratio(25, 100)}, unit : {1000}]

InitFlip == InitProbe("flip", FlipInputs)

ScheduleFlip ==
    Returned("flip", scheduledFlip(probe.in.item, probe.in.ratio, probe.in.unit))

NextFlip == ScheduleFlip

SpecFlip == InitFlip /\ [][NextFlip]_vars

----------------------------------------------------------------------------
(* The media overlay: narration events, the flip listener *)

\* every variable but media
nonMediaVars ==
    <<histVars, book, sectionProgress, renderer, tasks, step, limit, pushedBy,
      searchVars, probe>>

Spans == 1..NumSpans

\* the narrated items follow each other, each half of MaxTicks long
ItemOf(s) ==
    Item(Num((s - 1) * (MaxTicks \div 2)), Num(s * (MaxTicks \div 2)))

MediaBooks ==
    [resolveCFI : {"none"}, toc : {TRUE}, open : {FALSE}, media : {TRUE}]

\* the sentence as the renderer shows it after goTo: on the page, or with
\* 70% of it on the next page
OnPage ==
    [rects |-> <<Rect(0, 3, 0, GridH)>>, frame |-> Rect(0, GridW + 3, 0, GridH),
     rend |-> Rect(0, 3, 0, GridH), flow |-> "paginated", rtl |-> FALSE]

AcrossPages == [OnPage EXCEPT !.rects = <<Rect(0, 10, 0, GridH)>>]

NarrationLayouts == {OnPage, AcrossPages}

MediaStep(kind, span, pre) ==
    [NoMediaStep EXCEPT !.kind = kind, !.span = span, !.pre = pre]

\* audio.removeEventListener('timeupdate', handler)
RECURSIVE removeEventListener(_, _)
removeEventListener(listeners, id) ==
    IF listeners = <<>> THEN <<>>
    ELSE IF Head(listeners).id = id THEN Tail(listeners)
    ELSE <<Head(listeners)>> \o removeEventListener(Tail(listeners), id)

\* cleanupPageFlipHandler(): reading this.mediaOverlay.audio throws once
\* close() has set this.mediaOverlay to null
cleanupPageFlipHandler(m) ==
    IF m.handler = 0 THEN [m |-> m, threw |-> FALSE]
    ELSE IF ~m.overlay THEN [m |-> m, threw |-> TRUE]
    ELSE [m |-> [m EXCEPT !.listeners = removeEventListener(@, m.handler),
                          !.handler = 0],
          threw |-> FALSE]

Threw(m) == [m EXCEPT !.mstep.threw = TRUE]

\* the 'highlight' listener once cleanupPageFlipHandler() has returned:
\* the read of this.mediaOverlay.autoScroll throws after close(); with
\* autoScroll the continuation waits for renderer.goTo, without it the
\* element is highlighted at once if its section is among the contents
afterCleanup(m, s, index, shouldNavigate, loaded) ==
    IF ~m.overlay THEN Threw(m)
    ELSE IF shouldNavigate
    THEN [m EXCEPT !.navs = Append(@, [span |-> s, index |-> index])]
    ELSE IF loaded
    THEN [m EXCEPT !.active = @ \cup {s}, !.lastActive = s]
    ELSE m

\* the overlay starts narrating span s and dispatches 'highlight'
Highlight(s, index, shouldNavigate, loaded) ==
    /\ media.bound
    /\ ~media.lit
    /\ Len(media.navs) < MaxNavs
    /\ LET m0 == [media EXCEPT !.item = s, !.lit = TRUE,
                               !.mstep = MediaStep("highlight", s, media.listeners)]
           c == cleanupPageFlipHandler(m0)
       IN media' = IF c.threw THEN Threw(c.m)
                   ELSE afterCleanup(c.m, s, index, shouldNavigate, loaded)
    /\ UNCHANGED nonMediaVars

\* the overlay dispatches 'unhighlight'; it may keep its activeItem
Unhighlight(keeps) ==
    /\ media.bound
    /\ media.lit
    /\ LET m0 == [media EXCEPT !.lit = FALSE,
                               !.item = IF keeps THEN @ ELSE 0,
                               !.mstep = MediaStep("unhighlight", media.item,
                                                   media.listeners)]
           c == cleanupPageFlipHandler(m0)
       IN media' = IF c.threw THEN Threw(c.m)
                   ELSE [c.m EXCEPT !.active = @ \ {c.m.lastActive}]
    /\ UNCHANGED nonMediaVars

\* pageFlipTimeupdateHandler = () => {...}; addEventListener: the flip is
\* timed for the overlay's activeItem
armed(m, layout, atEnd) ==
    LET splitInfo == getElementSplitInfo(layout)
        flip == scheduledFlip(ItemOf(m.item), splitInfo.visibleRatio,
                              TicksPerSecond)
        id == m.arms + 1
    IN IF splitInfo = Null \/ atEnd THEN m
       ELSE IF flip = Null THEN m
       ELSE [m EXCEPT !.handler = id,
                      !.arms = id,
                      !.flips = Append(@, 0),
                      !.listeners = Append(@, [id |-> id, flip |-> flip,
                                               span |-> m.item])]

\* the continuation of renderer.goTo(resolved): highlightElement(), then the
\* split detection and the flip
afterGoTo(m, nav, contents, layout, atEnd) ==
    LET found == lookupDoc(contents, Num(nav.index))
        lit == [m EXCEPT !.active = @ \cup {nav.span}, !.lastActive = nav.span]
    IN IF found.threw THEN Threw(m)
       ELSE IF ~m.overlay THEN Threw(lit)
       ELSE IF m.item = 0 THEN lit
       ELSE armed(lit, layout, atEnd)

\* what getContents() returns once the promise of goTo has settled: the
\* section gone to; after destroy() possibly nothing
ContentsAfter(nav) ==
    IF renderer = "open" THEN {<<Content(nav.index)>>}
    ELSE {<<>>, <<Content(nav.index)>>}

\* the promise of a highlight's renderer.goTo is fulfilled
SettleNav(i, layout, atEnd) ==
    /\ i \in 1..Len(media.navs)
    /\ media.arms < MaxArms
    /\ \E contents \in ContentsAfter(media.navs[i]) :
        media' = afterGoTo([media EXCEPT !.navs = Remove(@, i),
                                         !.mstep = MediaStep("settle",
                                                       media.navs[i].span,
                                                       media.listeners)],
                           media.navs[i], contents, layout, atEnd)
    /\ UNCHANGED nonMediaVars

\* the promise is rejected: .then has no rejection handler
RejectNav(i) ==
    /\ i \in 1..Len(media.navs)
    /\ media' = [media EXCEPT !.navs = Remove(@, i),
                              !.mstep = MediaStep("reject", media.navs[i].span,
                                                  media.listeners)]
    /\ UNCHANGED nonMediaVars

\* a flip listener runs: after close() the read of this.mediaOverlay.audio
\* throws; from flipTime on it cleans up and calls renderer.next
pageFlipTimeupdateHandler(l, m) ==
    IF ~m.overlay THEN Threw(m)
    ELSE IF m.time * l.flip.den >= l.flip.num
    THEN [cleanupPageFlipHandler(m).m EXCEPT !.mstep.nexts = @ + 1,
                                             !.flips[l.id] = @ + 1]
    ELSE m

IsListening(m, id) == \E j \in 1..Len(m.listeners) : m.listeners[j].id = id

\* the audio dispatches 'timeupdate' to the listeners it had, in the order
\* they were added, leaving out those removed meanwhile
RECURSIVE dispatchTimeupdate(_, _, _)
dispatchTimeupdate(snapshot, k, m) ==
    IF k > Len(snapshot) THEN m
    ELSE IF ~IsListening(m, snapshot[k].id)
    THEN dispatchTimeupdate(snapshot, k + 1, m)
    ELSE dispatchTimeupdate(snapshot, k + 1,
                            pageFlipTimeupdateHandler(snapshot[k], m))

\* the audio plays on to time t
TimeUpdate(t) ==
    /\ media.bound
    /\ t >= media.time
    /\ \A id \in 1..Len(media.flips) : media.flips[id] < MaxFlips
    /\ media' = dispatchTimeupdate(media.listeners, 1,
                    [media EXCEPT !.time = t,
                                  !.mstep = MediaStep("timeupdate", media.item,
                                                      media.listeners)])
    /\ UNCHANGED nonMediaVars

NextNarration ==
    \/ \E b \in MediaBooks : renderer = "none" /\ Open(b)
    \/ close
    \/ \E s \in Spans, index \in {0, 1}, shouldNavigate \in BOOLEAN,
          loaded \in BOOLEAN : Highlight(s, index, shouldNavigate, loaded)
    \/ \E keeps \in BOOLEAN : Unhighlight(keeps)
    \/ \E i \in 1..MaxNavs, layout \in NarrationLayouts, atEnd \in BOOLEAN :
          SettleNav(i, layout, atEnd)
    \/ \E i \in 1..MaxNavs : RejectNav(i)
    \/ \E t \in 0..MaxTicks : TimeUpdate(t)

SpecNarration == Init /\ [][NextNarration]_vars

----------------------------------------------------------------------------
(* Properties of the History *)

IsFractionState(v) == "fraction" \in DOMAIN v

Length(h) == Len(h.arr)

Current(h) == Get(h, h.index)

PopStates(events) == SelectSeq(events, LAMBDA e : e.type = "popstate")

\* the last call, and the one before it
Last == trace[Len(trace)]

Prev == trace[Len(trace) - 1]

TwoCalls(op1, op2) == Len(trace) = 2 /\ Prev.op = op1 /\ Last.op = op2

\* C1: pushState with a fraction wrapper and then pushState with a wrapper of
\* the same fraction leaves length and pointer as they were after the first
\* call, for every fraction in [0,1].
C1_SameFractionTwice ==
    (/\ TwoCalls("pushState", "pushState")
     /\ IsFractionState(Prev.x) /\ IsFractionState(Last.x)
     /\ Prev.x.fraction = Last.x.fraction)
    => /\ history.index = Last.pre.index
       /\ Length(history) = Length(Last.pre)

\* C2 as stated: after back() has moved the pointer, pushState(x), for any x,
\* leaves length = pointer + 1 and canGoForward false.
C2_PushAfterBackTruncates ==
    (/\ TwoCalls("back", "pushState")
     /\ canGoBack(Prev.pre))
    => /\ Length(history) = history.index + 1
       /\ ~canGoForward(history)

\* x is stored by pushState: it is not null or undefined, it is not the entry
\* at the pointer, and the two are not fraction wrappers of one non-zero fraction
Stored(cur, x) ==
    /\ ~IsNullish(x)
    /\ x # cur
    /\ ~(/\ IsFractionState(cur) /\ IsFractionState(x)
         /\ cur.fraction # 0 /\ cur.fraction = x.fraction)

\* C2 amended: after back() has moved the pointer, a pushState(x) whose x is
\* stored (not coalesced with the entry at the pointer) leaves length =
\* pointer + 1 and canGoForward false, and x is the current entry.
C2_StoredPushAfterBackTruncates ==
    (/\ TwoCalls("back", "pushState")
     /\ canGoBack(Prev.pre)
     /\ Stored(Current(Last.pre), Last.x))
    => /\ Length(history) = history.index + 1
       /\ ~canGoForward(history)
       /\ history.index = Last.pre.index + 1
       /\ Current(history) = Last.x

C2_Witness ==
    /\ TwoCalls("back", "pushState")
    /\ canGoBack(Prev.pre)
    /\ Stored(Current(Last.pre), Last.x)
    /\ Length(Last.pre) > Last.pre.index + 2
    /\ Length(history) = history.index + 1
    /\ Length(history) < Length(Last.pre)

\* C3: from a state where canGoBack is true, back() and then forward()
\* restore the pointer and the current entry and leave the array as it was.
C3_BackThenForward ==
    (/\ TwoCalls("back", "forward")
     /\ canGoBack(Prev.pre))
    => /\ history.index = Prev.pre.index
       /\ Current(history) = Current(Prev.pre)
       /\ history.arr = Prev.pre.arr

C3_Witness ==
    /\ TwoCalls("back", "forward")
    /\ canGoBack(Prev.pre)
    /\ history.index = Prev.pre.index
    /\ history.index = Last.pre.index + 1

\* C4: after any sequence of calls, also replaceState on an empty History,
\* either the pointer is -1 and the length 0, or 0 <= pointer < length.
C4_PointerValid ==
    \/ history.index = -1 /\ Length(history) = 0
    \/ 0 <= history.index /\ history.index < Length(history)

\* replaceState was called on the empty History and a push followed
C4_Witness ==
    /\ TwoCalls("replaceState", "pushState")
    /\ Prev.pre.index = -1
    /\ Last.pre.index = -1 /\ Length(Last.pre) = 0
    /\ history.index = 0 /\ Length(history) = 1

\* C6: back() moves the pointer by -1 and raises one popstate carrying the
\* entry at the new pointer exactly when canGoBack is true, forward() does
\* the same by +1 exactly when canGoForward is true; otherwise the call
\* changes nothing and raises no event.
Moved(by) ==
    /\ history.index = Last.pre.index + by
    /\ history.arr = Last.pre.arr
    /\ Len(PopStates(dispatched)) = 1
    /\ PopStates(dispatched)[1].state = Current(history)

Stayed == history = Last.pre /\ dispatched = <<>>

C6_BackForwardInBounds ==
    /\ (Len(trace) > 0 /\ Last.op = "back") =>
           IF canGoBack(Last.pre) THEN Moved(-1) ELSE Stayed
    /\ (Len(trace) > 0 /\ Last.op = "forward") =>
           IF canGoForward(Last.pre) THEN Moved(1) ELSE Stayed

C6_Witness ==
    /\ TwoCalls("back", "forward")
    /\ canGoBack(Prev.pre)
    /\ canGoForward(Last.pre)
    /\ Len(PopStates(dispatched)) = 1
    /\ PopStates(dispatched)[1].state # Current(Last.pre)

----------------------------------------------------------------------------
(* Properties of the View *)

ReplaceReasons == {"snap", "page", "scroll"}

\* C5: replaceState(x) changes only the entry at the pointer to x and raises
\* no popstate; so a relocate event, which only calls replaceState, never
\* changes the History's length or pointer.
C5_RelocateOnlyReplaces ==
    step.kind = "relocate" =>
        /\ history.index = step.pre.index
        /\ Length(history) = Length(step.pre)
        /\ \A i \in 0..(Length(history) - 1) :
               i # history.index => Get(history, i) = Get(step.pre, i)
        /\ PopStates(dispatched) = <<>>
        /\ IF step.op \in ReplaceReasons
           THEN Current(history) = step.target
           ELSE history = step.pre

\* a relocate replaced the entry at the pointer, below another entry
C5_Witness ==
    /\ step.kind = "relocate"
    /\ step.op \in ReplaceReasons
    /\ history.index = 0 /\ Length(history) = 2
    /\ Current(history) # Current(step.pre)
    /\ Current(history) = step.target

\* C7: resolveNavigation of a number n returns {index: n}, without anchor,
\* when n is a section of the open book, and no target when it is not.
C7_NumericTarget ==
    (/\ step.kind = "resolve"
     /\ renderer = "open"
     /\ IsNumber(step.target))
    => IF step.target.number \in Sections
       THEN step.resolved = [index |-> step.target.number]
       ELSE step.resolved = Undefined

\* C8: whatever the target and whichever step of the resolution fails,
\* resolveNavigation hands its caller no rejected promise (and, catching
\* every throw, no exception): a failure yields no target.
C8_NoFailureReachesCaller ==
    step.kind = "resolve" =>
        ~(IsPromise(step.resolved) /\ step.resolved.promise = "rejected")

NavigationOps == {"goTo", "select", "goToFraction", "goToFractionInSection"}

\* C9: when the renderer rejects the navigation of goTo, select,
\* goToFraction or goToFractionInSection, the History is unchanged and no
\* exception surfaces to the caller; nothing is pushed before the renderer
\* has navigated.
C9_RejectedNavigation ==
    /\ (step.kind = "settle" /\ step.op \in NavigationOps
            /\ step.outcome = "rejected")
        => (history = step.pre /\ ~step.surfaced)
    /\ (step.kind = "call" /\ step.op \in NavigationOps)
        => history = step.pre

\* C10: when resolveNavigation yields no target, goTo and the popstate
\* listener ask nothing of the renderer (and so push nothing).
C10_UnresolvedIsNoOp ==
    (/\ step.kind = "call"
     /\ step.op \in {"goTo", "popstate"}
     /\ step.resolved = Undefined)
    => step.request = NoValue

\* C11: entries pushed by navigation calls stand in the History in the order
\* the calls were made, whatever the order in which the renderer settles
\* them; a replaceState in between does not change their order.
C11_PushesInCallOrder ==
    \A p, q \in 1..Len(pushedBy) :
        (p < q /\ pushedBy[p] # 0 /\ pushedBy[q] # 0)
            => pushedBy[p] < pushedBy[q]

\* the open book exposes neither splitTOCHref nor getTOCFragment
OpenWithoutTOC == renderer = "open" /\ book.open /\ ~book.toc

IsResolved(v) == "index" \in DOMAIN v /\ "anchor" \in DOMAIN v

\* C12: for a book without splitTOCHref and getTOCFragment the TOC and page
\* items are undefined, and section progress still works: a relocate yields
\* the section progress for its index, resolveNavigation of a fraction wrapper
\* and goToFraction resolve to {index, anchor}, and getSectionFractions
\* returns the book's section fractions.
C12_SectionProgressWithoutTOC ==
    OpenWithoutTOC =>
        /\ step.kind = "relocate" =>
               /\ step.resolved.tocItem = Undefined
               /\ step.resolved.pageItem = Undefined
               /\ step.resolved.progress = [section |-> step.target.cfi]
        /\ (step.kind = "resolve" /\ IsFractionState(step.target)) =>
               IsResolved(step.resolved)
        /\ (step.kind = "call" /\ step.op = "goToFraction") =>
               IsResolved(step.request) /\ ~step.surfaced
        /\ step.kind = "fractions" => Len(step.resolved) = NumSections

----------------------------------------------------------------------------
(* Properties of search and overlays *)

SearchValuesOn(i) == {v \in overlays[i].values : StartsWithSearchPrefix(v)}

Pending(origin) == \E k \in 1..Len(jobs) : jobs[k].origin = origin

\* C13: after clearSearch() and the removals it started, no live overlay
\* holds a value with the search prefix and the registry is empty, and every
\* persistent annotation that was on an overlay before the call is still
\* on it.
C13_ClearSearchRemovesHits ==
    (sstep.cleared # NoValue /\ ~Pending("clear"))
    => /\ searchResults = NewMap
       /\ \A i \in SearchSections :
              overlays[i].live =>
                  /\ SearchValuesOn(i) = {}
                  /\ sstep.cleared[i] \subseteq overlays[i].values

\* the values of the hits the running sequence has found in its section
HitsOfRun == {SearchValue(HitCFI(iter.index, h)) : h \in 1..iter.hits}

\* search was run on a section and run again on it; the second run has
\* ended, nothing has cleared the registry since, and every addition and
\* removal has settled
SecondRunSettled ==
    /\ iter.mode = "section"
    /\ iter.prev = ToString(iter.index)
    /\ iter.pc = "finished"
    /\ iter.listed
    /\ jobs = <<>>

\* C14: when search is run on a section and run again, once the second run
\* has settled the search-tagged entries of the section's overlay and the
\* registry list of the section are exactly the hits of the second run,
\* for any timing of the address resolutions of add and remove.
C14_SecondRunReplacesFirst ==
    SecondRunSettled =>
        /\ iter.index \in DOMAIN searchResults
        /\ Items(searchResults[iter.index]) = HitsOfRun
        /\ overlays[iter.index].live => SearchValuesOn(iter.index) = HitsOfRun

\* the positions of the results handed to the consumer that are 'done'
DonePositions == {k \in 1..Len(iter.out) : iter.out[k] = Done}

\* C15: for every open book, with or without TOC data, and every search,
\* single section or whole book, a consumer that keeps pulling receives
\* finitely many results, the last of them 'done', and 'done' once only.
C15_SearchEndsWithDone ==
    /\ iter.pc # "threw"
    /\ iter.pc = "finished" => DonePositions = {Len(iter.out)}
    /\ iter.pc \notin {"finished", "threw"} =>
           DonePositions \subseteq {Len(iter.out)}

\* the positions of the progress events and of the hit events among the
\* results handed to the consumer
ProgressAt == {k \in 1..Len(iter.out) : "progress" \in DOMAIN iter.out[k]}

SubitemsAt == {k \in 1..Len(iter.out) : "subitems" \in DOMAIN iter.out[k]}

\* a whole-book search has been pulled to its end
BookSearchFinished == iter.mode = "book" /\ iter.pc = "finished"

\* one progress event per section with createDocument, none for the others,
\* in increasing index order
VisitedInOrder ==
    /\ \A i \in SearchSections :
           Cardinality({k \in ProgressAt : iter.out[k].index = i})
               = IF book.docs[i] THEN 1 ELSE 0
    /\ \A k1, k2 \in ProgressAt :
           k1 < k2 => iter.out[k1].index < iter.out[k2].index

\* a hit event follows the progress event of a section exactly when the
\* matcher found something there
HitsFollowProgress ==
    /\ \A k \in ProgressAt :
           iter.out[k].hits > 0 <=>
               (k + 1 \in SubitemsAt /\ iter.out[k + 1].index = iter.out[k].index)
    /\ \A k \in SubitemsAt : k - 1 \in ProgressAt

ProgressIncreases ==
    \A k1, k2 \in ProgressAt :
        k1 < k2 => iter.out[k1].progress.num < iter.out[k2].progress.num

\* the last progress value is 1
ProgressCompletes ==
    \A k \in ProgressAt :
        (\A k2 \in ProgressAt : k2 <= k) =>
            iter.out[k].progress.num = iter.out[k].progress.den

\* C16: a whole-book search visits the sections in increasing index order,
\* skips those without createDocument, yields one progress event per visited
\* section, followed by a hit event exactly when the section had a hit; the
\* progress values increase strictly and the last one is 1.
C16_BookSearchEvents ==
    BookSearchFinished =>
        /\ VisitedInOrder
        /\ HitsFollowProgress
        /\ ProgressIncreases
        /\ ProgressCompletes

\* the search values of what the last step handed to the consumer
YieldedValues ==
    IF sstep.kind # "yield" THEN {}
    ELSE IF "cfi" \in DOMAIN sstep.result THEN {SearchValue(sstep.result.cfi)}
    ELSE IF "subitems" \in DOMAIN sstep.result
    THEN {SearchValue(sstep.result.subitems[k]) :
              k \in 1..Len(sstep.result.subitems)}
    ELSE {}

\* addAnnotation(item) has been called for the value and has not finished
Registering(v) ==
    \E k \in 1..Len(jobs) :
        jobs[k].value = v /\ ~jobs[k].remove /\ jobs[k].origin = "search"

\* C17: when the sequence hands a hit to the consumer, the hit is already on
\* the registry list of its section and its addAnnotation has been started,
\* also for a section whose overlay is not live.
C17_YieldedHitsRegistered ==
    \A v \in YieldedValues :
        /\ sstep.index \in DOMAIN searchResults
        /\ v \in Items(searchResults[sstep.index])
        /\ Registering(v)

StoredFor(i) ==
    IF i \in DOMAIN searchResults THEN Items(searchResults[i]) ELSE {}

\* C18: when the renderer has raised create-overlayer for section i and the
\* asynchronous steps have settled, every search hit that was replayed and
\* is stored in the registry for section i is on the new overlay (which is
\* attached only after the handler has returned).
C18_ReplayedHitsOnOverlay ==
    jobs = <<>> =>
        \A i \in SearchSections :
            overlays[i].live =>
                (overlays[i].replayed \cap StoredFor(i))
                    \subseteq overlays[i].values

\* an addAnnotation(annotation) call of the shell has settled and the
\* overlay of the annotation's section was not live
SettledNotLive ==
    /\ sstep.kind = "annotation"
    /\ sstep.job.origin = "shell"
    /\ ~sstep.job.remove
    /\ ~Awaited(sstep.job.resolved).threw
    /\ ~IsNullish(Awaited(sstep.job.resolved).value)
    /\ ~sstep.live

IsMetadata(v) ==
    /\ DOMAIN v = {"index", "label"}
    /\ v.index = sstep.index
    /\ v.label \in {"", TOCLabel(sstep.index)}

\* C19: addAnnotation(annotation) for an annotation whose section overlay is
\* not live changes no overlay, raises no exception and returns {index, label}
\* (label empty when none is available), for every book, including books
\* without TOC data.
C19_NotLiveReturnsMetadata ==
    SettledNotLive =>
        /\ ~sstep.changed
        /\ sstep.outcome = "returned"
        /\ IsMetadata(sstep.result)

IsEmptyHistory(h) ==
    /\ h.index = -1
    /\ Length(h) = 0
    /\ ~canGoBack(h)
    /\ ~canGoForward(h)

C29_LookupMatchesFirstEntry ==
    (probe.kind = "lookup" /\ probe.done /\ IsNumber(probe.in.index)) =>
        probe.out = Return(Num(probe.in.contents[1].doc))

\* the length two intervals share
OverlapLen(a, b, c, d) == Max2(0, Min2(b, d) - Max2(a, c))

\* the area of the element's rects that lies in a region of the page
AreaIn(layout, region) ==
    LET n == Len(layout.rects)
        g == [k \in 1..n |-> Global(layout.rects[k], layout.frame)]
    IN SumTo([k \in 1..n |->
                OverlapLen(g[k].left, g[k].right, region.left, region.right)
                    * OverlapLen(g[k].top, g[k].bottom, region.top, region.bottom)],
             n)

Far == 8 * (GridW + GridH + 3)

Everywhere == Rect(0 - Far, Far, 0 - Far, Far)

Viewport(layout) ==
    Rect(Max2(layout.rend.left, layout.frame.left),
         Min2(layout.rend.right, layout.frame.right),
         Max2(layout.rend.top, layout.frame.top),
         Min2(layout.rend.bottom, layout.frame.bottom))

\* the parts of the page beside the viewport
RightOfViewport(layout) ==
    [Viewport(layout) EXCEPT !.left = Viewport(layout).right, !.right = Far]

LeftOfViewport(layout) ==
    [Viewport(layout) EXCEPT !.right = Viewport(layout).left, !.left = 0 - Far]

TotalArea(layout) == AreaIn(layout, Everywhere)

VisibleArea(layout) == AreaIn(layout, Viewport(layout))

\* split detection has answered for a paginated horizontal layout with a
\* viewport
SplitAnswered(rtl) ==
    /\ probe.kind = "split"
    /\ probe.done
    /\ probe.in.flow = "paginated"
    /\ probe.in.rtl = rtl
    /\ Viewport(probe.in).left < Viewport(probe.in).right
    /\ Viewport(probe.in).top < Viewport(probe.in).bottom

IsSplit(out, visible, hidden, total) ==
    /\ out # Null
    /\ out.visibleRatio.num * total = visible * out.visibleRatio.den
    /\ out.offScreenRatio.num * total = hidden * out.offScreenRatio.den

\* C27: in a paginated, horizontal, left-to-right layout split detection
\* returns "no split" when the total or the visible area is zero, when
\* visible/total >= 0.98, when the forward-hidden ratio is < 0.10 or when it
\* is <= the backward-hidden ratio, and otherwise visibleRatio =
\* visible/total and offScreenRatio = forwardHidden/total. A single rect
\* inside the viewport gives "no split", a rect hidden equally forward and
\* backward gives "no split", a rect 70% hidden forward and 0% backward
\* gives offScreenRatio 0.70 and visibleRatio 0.30.
C27_SplitDetectionLTR ==
    SplitAnswered(FALSE) =>
        LET total == TotalArea(probe.in)
            visible == VisibleArea(probe.in)
            fwd == AreaIn(probe.in, RightOfViewport(probe.in))
            bwd == AreaIn(probe.in, LeftOfViewport(probe.in))
            single == Len(probe.in.rects) = 1
        IN /\ IF \/ total = 0
                 \/ visible = 0
                 \/ visible * 100 >= 98 * total
                 \/ fwd * 10 < total
                 \/ fwd <= bwd
              THEN probe.out = Null
              ELSE IsSplit(probe.out, visible, fwd, total)
           /\ (single /\ visible = total) => probe.out = Null
           /\ (single /\ fwd = bwd) => probe.out = Null
           /\ (single /\ total > 0 /\ fwd * 10 = 7 * total /\ bwd = 0
                      /\ visible + fwd = total)
                => IsSplit(probe.out, 3, 7, 10)

\* a single rect 70% hidden forward has been reported as a split
C27_Witness ==
    /\ SplitAnswered(FALSE)
    /\ Len(probe.in.rects) = 1
    /\ AreaIn(probe.in, RightOfViewport(probe.in)) * 10 = 7 * TotalArea(probe.in)
    /\ AreaIn(probe.in, LeftOfViewport(probe.in)) = 0
    /\ IsSplit(probe.out, 3, 7, 10)

\* C28: split detection reports a split only for overflow that lies
\* predominantly in the forward reading direction, also right-to-left, where
\* forward is past the viewport's left edge: a rect 70% hidden past the left
\* edge and 0% past the right edge yields a split with offScreenRatio 0.70,
\* and a rect hidden only past the right edge yields "no split".
C28_SplitDetectionRTL ==
    SplitAnswered(TRUE) =>
        LET total == TotalArea(probe.in)
            visible == VisibleArea(probe.in)
            left == AreaIn(probe.in, LeftOfViewport(probe.in))
            right == AreaIn(probe.in, RightOfViewport(probe.in))
            single == Len(probe.in.rects) = 1
        IN /\ probe.out # Null => left > right
           /\ (single /\ total > 0 /\ left * 10 = 7 * total /\ right = 0
                      /\ visible + left = total)
                => IsSplit(probe.out, 3, 7, 10)
           /\ (single /\ right > 0 /\ left = 0) => probe.out = Null

\* a flip has been scheduled for an item with begin and end
FlipScheduled ==
    /\ probe.kind = "flip"
    /\ probe.done
    /\ IsNumber(probe.in.item.begin)
    /\ IsNumber(probe.in.item.end)
    /\ LongEnough(probe.in.item, probe.in.unit)

HundredthsOfExample(t) ==
    /\ probe.kind = "flip"
    /\ probe.done
    /\ probe.in.item = ExampleItem
    /\ probe.in.ratio = Ratio(25, 100)
    /\ probe.out # Null
    /\ 2 * probe.out.num >= (2 * t - 1) * 10 * probe.out.den
    /\ 2 * probe.out.num < (2 * t + 1) * 10 * probe.out.den

ExampleAnswered ==
    probe.kind = "flip" /\ probe.done /\ probe.in.item = ExampleItem

C22_AtMostOneFlipListener == Len(media.listeners) <= 1

\* close() has run on a View with a media overlay
Closed == media.bound /\ ~media.overlay

\* C21: after close() no timeupdate flip listener armed by an earlier
\* highlight is still registered on the narration audio, and no later audio
\* time update causes a page advance or an error, whether close() happens
\* while a flip is armed or while a highlight's navigation is pending.
C21_CloseCancelsFlip ==
    Closed =>
        /\ media.listeners = <<>>
        /\ media.mstep.kind = "timeupdate" =>
              (media.mstep.nexts = 0 /\ ~media.mstep.threw)

\* the last narration event was 'unhighlight', the document is open and the
\* navigations of the highlights have settled
UnhighlightedAndSettled ==
    /\ media.bound
    /\ media.overlay
    /\ ~media.lit
    /\ media.navs = <<>>

\* C23: after an unhighlight event that is not followed by another highlight,
\* once pending navigations have settled no flip listener is registered on
\* the audio and no element carries the active highlight class, also when
\* the unhighlight arrives before the navigation of the preceding highlight
\* has settled.
C23_UnhighlightCancels ==
    UnhighlightedAndSettled =>
        (media.listeners = <<>> /\ media.active = {})

Due(l) == media.time * l.flip.den >= l.flip.num

\* C24: each armed flip causes at most one page advance: at the first audio
\* time update with currentTime >= flipTime the listener calls renderer.next
\* once and is removed from the audio, no later time update calls
\* renderer.next for it again, and before flipTime it never calls it.
C24_FlipFiresOnce ==
    /\ \A id \in 1..Len(media.flips) : media.flips[id] <= 1
    /\ (media.overlay /\ media.mstep.kind = "timeupdate") =>
          /\ media.mstep.nexts =
                Cardinality({k \in 1..Len(media.mstep.pre) :
                                Due(media.mstep.pre[k])})
          /\ \A k \in 1..Len(media.mstep.pre) :
                Due(media.mstep.pre[k])
                    => ~IsListening(media, media.mstep.pre[k].id)

====
